---- MODULE Spec2Model ----
(***************************************************************************)
(* Portfolio store and search-and-select flow of the investment dashboard  *)
(* (src/src/components/Portfolio.tsx, src/src/components/SearchBar.tsx).   *)
(*                                                                         *)
(* Strings are sequences of one-character strings, so that parseFloat,     *)
(* Number.prototype.toString, JSON.stringify and JSON.parse are computed   *)
(* conversions.  Numbers are integers (the inputs are integral decimal     *)
(* literals); NaN is carried by the record ParseFloat returns.             *)
(***************************************************************************)
EXTENDS Integers, Sequences, FiniteSets, TLC

-----------------------------------------------------------------------------
(* Bounds of the model *)

\* Most holdings the add operation is let to put in the list.
MaxItems == 2
\* Largest value of the millisecond clock read by Date.now().
MaxClock == 2

-----------------------------------------------------------------------------
(* Strings and numbers *)

DigitChars == <<"0", "1", "2", "3", "4", "5", "6", "7", "8", "9">>

IsDigit(c) == \E d \in 1..10 : DigitChars[d] = c

DigitVal(c) == (CHOOSE d \in 1..10 : DigitChars[d] = c) - 1

RECURSIVE NatToStr(_)
NatToStr(n) ==
  IF n < 10 THEN <<DigitChars[n + 1]>>
  ELSE NatToStr(n \div 10) \o <<DigitChars[(n % 10) + 1]>>

\* Number.prototype.toString() of an integral number
NumToStr(n) == IF n < 0 THEN <<"-">> \o NatToStr(-n) ELSE NatToStr(n)

RECURSIVE DigitsPrefix(_)
DigitsPrefix(s) ==
  IF s = <<>> \/ ~IsDigit(Head(s)) THEN <<>>
  ELSE <<Head(s)>> \o DigitsPrefix(Tail(s))

RECURSIVE DigitsVal(_, _)
DigitsVal(s, acc) ==
  IF s = <<>> THEN acc ELSE DigitsVal(Tail(s), 10 * acc + DigitVal(Head(s)))

NaN == [nan |-> TRUE, val |-> 0]

\* parseFloat: an optional sign, then the longest prefix of digits; NaN when
\* there is no digit.  What follows the digits is ignored.
ParseFloat(s) ==
  LET signed == s # <<>> /\ Head(s) \in {"-", "+"}
      body   == IF signed THEN Tail(s) ELSE s
      ds     == DigitsPrefix(body)
      mag    == DigitsVal(ds, 0)
  IN  IF ds = <<>> THEN NaN
      ELSE [nan |-> FALSE,
            val |-> IF signed /\ Head(s) = "-" THEN 0 - mag ELSE mag]

isNaN(x) == x.nan

\* x <= 0 on numbers: every comparison with NaN is false
Leq0(x) == ~x.nan /\ x.val <= 0

\* x < 0 on numbers
Lt0(x) == ~x.nan /\ x.val < 0

\* string.length
Length(s) == Len(s)

-----------------------------------------------------------------------------
(* Assets returned by the search, and holdings *)

Undefined == [defined |-> FALSE, val |-> 0]
Price(p)  == [defined |-> TRUE, val |-> p]

\* interface SearchResult: a stock with a quoted price, a crypto asset (the
\* crypto lookup gives no price), a stock quoted without regularMarketPrice
\* (price: quote.regularMarketPrice || 0).
Assets ==
  { [symbol |-> "AAPL", name |-> "Apple Inc.", type |-> "stock",  price |-> Price(5)],
    [symbol |-> "BTC",  name |-> "Bitcoin",    type |-> "crypto", price |-> Undefined],
    [symbol |-> "ZZZ",  name |-> "Zed Corp",   type |-> "stock",  price |-> Price(0)] }

\* mockPrices[symbol] || 100, for the integral entry of the table
getCurrentPrice(symbol) == IF symbol = "BTC" THEN 119051 ELSE 100

\* asset.price || await getCurrentPrice(asset.symbol, asset.type)
CurrentPriceOf(asset) ==
  IF asset.price.defined /\ asset.price.val # 0 THEN asset.price.val
  ELSE getCurrentPrice(asset.symbol)

\* const newItem: PortfolioItem = { id: Date.now().toString(), ... }
NewItem(asset, quantity, purchasePrice, now) ==
  [id            |-> NumToStr(now),
   symbol        |-> asset.symbol,
   name          |-> asset.name,
   type          |-> asset.type,
   quantity      |-> quantity,
   purchasePrice |-> purchasePrice,
   currentPrice  |-> CurrentPriceOf(asset)]

-----------------------------------------------------------------------------
(* JSON *)

\* A JSON text is a sequence of tokens.
Tok(k, s) == [k |-> k, s |-> s]
LBracket  == Tok("[", <<>>)
RBracket  == Tok("]", <<>>)
LBrace    == Tok("{", <<>>)
RBrace    == Tok("}", <<>>)
NullTok   == Tok("null", <<>>)
JunkTok   == Tok("junk", <<>>)

\* JavaScript values that setPortfolio can be given
Arr(items) == [tag |-> "array",  items |-> items]
Null       == [tag |-> "null",   items |-> <<>>]
Obj        == [tag |-> "object", items |-> <<>>]

ItemTokens(h) ==
  << LBrace,
     Tok("str", h.id), Tok("str", <<h.symbol>>), Tok("str", <<h.name>>),
     Tok("str", <<h.type>>),
     Tok("num", NumToStr(h.quantity)), Tok("num", NumToStr(h.purchasePrice)),
     Tok("num", NumToStr(h.currentPrice)),
     RBrace >>

ItemWidth == Len(ItemTokens(NewItem(CHOOSE a \in Assets : TRUE, 1, 1, 1)))

RECURSIVE ItemsTokens(_)
ItemsTokens(items) ==
  IF items = <<>> THEN <<>>
  ELSE ItemTokens(Head(items)) \o ItemsTokens(Tail(items))

JSONstringify(v) ==
  IF v.tag = "null" THEN <<NullTok>>
  ELSE IF v.tag = "object" THEN <<LBrace, RBrace>>
  ELSE <<LBracket>> \o ItemsTokens(v.items) \o <<RBracket>>

IsItemText(t) ==
  /\ Len(t) = ItemWidth
  /\ t[1] = LBrace /\ t[ItemWidth] = RBrace
  /\ \A i \in 2..5 : t[i].k = "str"
  /\ \A i \in 6..8 : t[i].k = "num" /\ ~isNaN(ParseFloat(t[i].s))

ParseItem(t) ==
  [id            |-> t[2].s,
   symbol        |-> t[3].s[1],
   name          |-> t[4].s[1],
   type          |-> t[5].s[1],
   quantity      |-> ParseFloat(t[6].s).val,
   purchasePrice |-> ParseFloat(t[7].s).val,
   currentPrice  |-> ParseFloat(t[8].s).val]

ItemText(mid, i) == SubSeq(mid, (i - 1) * ItemWidth + 1, i * ItemWidth)

\* JSON.parse: the value, or ok = FALSE for the SyntaxError it throws
JSONparse(text) ==
  LET n   == Len(text)
      mid == SubSeq(text, 2, n - 1)
      cnt == Len(mid) \div ItemWidth
  IN  IF text = <<NullTok>> THEN [ok |-> TRUE, value |-> Null]
      ELSE IF text = <<LBrace, RBrace>> THEN [ok |-> TRUE, value |-> Obj]
      ELSE IF /\ n >= 2 /\ text[1] = LBracket /\ text[n] = RBracket
              /\ Len(mid) % ItemWidth = 0
              /\ \A i \in 1..cnt : IsItemText(ItemText(mid, i))
           THEN [ok |-> TRUE,
                 value |-> Arr([i \in 1..cnt |-> ParseItem(ItemText(mid, i))])]
      ELSE [ok |-> FALSE, value |-> Null]

-----------------------------------------------------------------------------
(* localStorage *)

\* The 'portfolio' slot: localStorage.getItem returns null when it is absent.
Absent     == [present |-> FALSE, text |-> <<>>]
Slot(text) == [present |-> TRUE, text |-> text]

-----------------------------------------------------------------------------
(* The search sources and searchAssets *)

\* results.slice(0, n)
Slice(s, n) == SubSeq(s, 1, IF Len(s) < n THEN Len(s) ELSE n)

\* stockResults.slice(0, 5)
StockCap == 5
\* cryptoData.coins?.slice(0, 5)
CryptoCap == 5
\* results.slice(0, 10)
ResultCap == 10

\* Keys of the queries that are looked up (query.length >= 2)
SearchedQueries == { <<"a", "a">>, <<"b", "t">> }

Quote(symbol, typeDisp, exchange, longname, shortname, price) ==
  [symbol |-> symbol, typeDisp |-> typeDisp, exchange |-> exchange,
   longname |-> longname, shortname |-> shortname,
   regularMarketPrice |-> price]

Coin(symbol, name) == [symbol |-> symbol, name |-> name]

\* The quotes Yahoo Finance holds for a query (quotesCount=8); "" is an
\* absent string
YahooQuotes(q) ==
  IF q = <<"a", "a">>
  THEN << Quote("AAPL", "Equity", "NMS", "Apple Inc.", "Apple", Price(5)),
          Quote("AAXJ", "ETF",    "NGM", "Asia ETF", "", Price(7)),
          Quote("ZZZ",  "Equity", "NYQ", "", "Zed Corp", Undefined),
          Quote("AAQQ", "Equity", "",    "No Exchange", "", Price(3)),
          Quote("AAL",  "Equity", "NMS", "", "", Price(4)),
          Quote("AAP",  "Equity", "NYQ", "Advance Auto", "", Price(6)),
          Quote("AAON", "Equity", "NMS", "AAON Inc.", "", Price(8)),
          Quote("AAT",  "Equity", "NYQ", "American Assets", "", Price(9)) >>
  ELSE << Quote("BTCS", "Equity", "NMS", "BTCS Inc.", "", Price(2)) >>

\* The coins CoinGecko holds for a query
GeckoCoins(q) ==
  IF q = <<"b", "t">>
  THEN << Coin("btc", "Bitcoin"), Coin("bch", "Bitcoin Cash"),
          Coin("btg", "Bitcoin Gold"), Coin("bsv", "Bitcoin SV"),
          Coin("wbtc", "Wrapped Bitcoin"), Coin("btt", "BitTorrent") >>
  ELSE << Coin("aave", "Aave") >>

\* What a fetch can come to: the request fails, the response is not OK, its
\* body is no JSON, or it is OK with a body
Response(kind, body) == [kind |-> kind, body |-> body]
NoResponse == Response("none", {})
FailedResponses ==
  { Response("networkError", {}), Response("notOk", {}),
    Response("parseError", {}) }

\* Responses of the stock source: a failure, a body without quotes, a body
\* with the quotes of the query
YahooResponses(q) ==
  FailedResponses \cup { Response("ok", {}), Response("ok", {YahooQuotes(q)}) }

\* Responses of the crypto source: a failure, a body without coins, a body
\* with the coins of the query, a body whose first coin has no symbol
GeckoResponses(q) ==
  FailedResponses
  \cup { Response("ok", {}), Response("ok", {GeckoCoins(q)}),
         Response("ok", {<<Coin("", "Nameless")>> \o GeckoCoins(q)}) }

\* quote.longname || quote.shortname || quote.symbol
QuoteName(quote) ==
  IF quote.longname # "" THEN quote.longname
  ELSE IF quote.shortname # "" THEN quote.shortname
  ELSE quote.symbol

\* quote.regularMarketPrice || 0
QuotePrice(quote) ==
  IF quote.regularMarketPrice.defined THEN quote.regularMarketPrice
  ELSE Price(0)

\* data.quotes?.filter(quote => quote.typeDisp === 'Equity' && quote.exchange)
\*             .map(quote => ({ symbol, name, type: 'stock', price })) || []
StockResults(body) ==
  IF body = {} THEN <<>>
  ELSE LET quotes == CHOOSE x \in body : TRUE
           kept   == SelectSeq(quotes,
                       LAMBDA quote : quote.typeDisp = "Equity" /\ quote.exchange # "")
       IN  [i \in 1..Len(kept) |->
              [symbol |-> kept[i].symbol, name |-> QuoteName(kept[i]),
               type |-> "stock", price |-> QuotePrice(kept[i])]]

\* searchStocks without its try/catch: a failed lookup throws
SearchStocksNoCatch(resp) ==
  IF resp.kind # "ok" THEN [threw |-> TRUE, list |-> <<>>]
  ELSE [threw |-> FALSE, list |-> StockResults(resp.body)]

\* searchStocks(query): the catch turns every failure into []
SearchStocks(resp) ==
  IF resp.kind # "ok" THEN [threw |-> FALSE, list |-> <<>>]
  ELSE [threw |-> FALSE, list |-> StockResults(resp.body)]

\* coin.symbol.toUpperCase()
ToUpperCase(s) ==
  CASE s = "btc"  -> "BTC"
    [] s = "bch"  -> "BCH"
    [] s = "btg"  -> "BTG"
    [] s = "bsv"  -> "BSV"
    [] s = "wbtc" -> "WBTC"
    [] s = "btt"  -> "BTT"
    [] s = "aave" -> "AAVE"
    [] OTHER      -> s

\* The crypto part of searchAssets: a response that is not OK is skipped, and
\* the catch turns a failed fetch, a body that is no JSON and a coin without
\* symbol (toUpperCase of undefined) into no results
CryptoResults(resp) ==
  IF resp.kind # "ok" \/ resp.body = {} THEN <<>>
  ELSE LET coins == Slice(CHOOSE x \in resp.body : TRUE, CryptoCap)
       IN  IF \E i \in 1..Len(coins) : coins[i].symbol = "" THEN <<>>
           ELSE [i \in 1..Len(coins) |->
                   [symbol |-> ToUpperCase(coins[i].symbol),
                    name |-> coins[i].name, type |-> "crypto",
                    price |-> Undefined]]

\* A query of the react-query cache: the two fetches of the running
\* searchAssets, what each has given, and the data of the last run that
\* resolved ({} is undefined)
NoRun ==
  [query |-> <<>>, stock |-> "idle", crypto |-> "idle", error |-> FALSE,
   stockResp |-> NoResponse, cryptoResp |-> NoResponse,
   stockPart |-> <<>>, cryptoPart |-> <<>>, data |-> {}]

NoSearches == [q \in SearchedQueries |-> NoRun]

InFlight(run) == run.stock = "inflight" \/ run.crypto = "inflight"

\* The two lookups started together, as with Promise.all
CryptoIssuedRacing == TRUE

\* The crypto request is issued after  await searchStocks(query)
CryptoIssuedAtStart == FALSE

\* queryFn: () => searchAssets(query), started by useQuery
StartRun(run, q) ==
  [run EXCEPT !.query = q,
              !.stock = "inflight",
              !.crypto = IF CryptoIssuedAtStart THEN "inflight" ELSE "idle",
              !.error = FALSE,
              !.stockResp = NoResponse, !.cryptoResp = NoResponse,
              !.stockPart = <<>>, !.cryptoPart = <<>>]

\* return results.slice(0, 10), resolved into the cache under the run's key
Resolved(run) ==
  IF run.stock = "done" /\ run.crypto = "done" /\ ~run.error
  THEN [run EXCEPT !.data = {Slice(run.stockPart \o run.cryptoPart, ResultCap)}]
  ELSE run

\* The stock lookup of a run comes back
StockDone(run, resp) ==
  LET r == SearchStocks(resp)
  IN  IF r.threw
      THEN [run EXCEPT !.stock = "done", !.crypto = "done", !.error = TRUE,
                       !.stockResp = resp]
      ELSE Resolved([run EXCEPT
                       !.stock = "done",
                       !.stockResp = resp,
                       !.stockPart = Slice(r.list, StockCap),
                       !.crypto = IF run.crypto = "idle" THEN "inflight"
                                  ELSE run.crypto])

\* The crypto lookup of a run comes back
CryptoDone(run, resp) ==
  Resolved([run EXCEPT !.crypto = "done",
                       !.cryptoResp = resp,
                       !.cryptoPart = CryptoResults(resp)])

\* The cache key were the query left out of it: queryKey: ['search']
QueryKeyShared(q) == <<"a", "a">>

\* The cache key of a query: queryKey: ['search', query]
QueryKey(q) == q

-----------------------------------------------------------------------------
(* A second tab *)

NotOpened == [phase |-> "closed", pending |-> {}, portfolio |-> <<>>]

-----------------------------------------------------------------------------
(* State *)

VARIABLES
  storage,            \* localStorage slot 'portfolio'
  phase,              \* "init", "loading", "mounted" or "crashed"
  pending,            \* value of a queued setPortfolio(JSON.parse(...)), or {}
  portfolio,          \* useState<PortfolioItem[]>([])
  editingItem,        \* useState<PortfolioItem | null>(null): {} is null
  editQuantity,       \* useState('')
  editPrice,          \* useState('')
  isAddDialogOpen,    \* Portfolio: useState(false)
  isEditDialogOpen,   \* useState(false)
  toast,              \* title of the toast raised by the latest step, "" if none
  logged,             \* console.error message of the latest step, "" if none
  query,              \* SearchBar: useState('')
  isOpen,             \* SearchBar: useState(false)
  selectedAsset,      \* SearchBar: useState<SearchResult | null>(null)
  quantity,           \* SearchBar: useState('')
  purchasePrice,      \* SearchBar: useState('')
  sbIsAddDialogOpen,  \* SearchBar: useState(false) (isAddDialogOpen)
  clock,              \* Date.now()
  searches,           \* react-query: the query ['search', q] of each key q
  other,              \* the Portfolio of a second tab open on the same slot
  event,              \* history: the handler or effect run by the latest step
  reloaded            \* history: the list held when the page was last reloaded,
                      \* {} once the list has been mutated since

editVars   == <<editingItem, editQuantity, editPrice, isEditDialogOpen>>
searchVars == <<query, isOpen, selectedAsset, quantity, purchasePrice,
                sbIsAddDialogOpen>>
vars == <<storage, phase, pending, portfolio, editVars, isAddDialogOpen,
          toast, logged, searchVars, clock, searches, other, event, reloaded>>

\* Strings the Quantity inputs of the two forms are given
QuantityInputs == { <<>>, <<"0">>, <<"2">> }

\* Strings the Purchase Price inputs of the two forms are given (the add form
\* also starts from the price text of the selected asset, which can be empty)
PriceInputs == { <<"-", "1">>, <<"2">> }

\* Strings typed in the search box
Queries == { <<>>, <<"b">>, <<"b", "t">> }

\* Lists an earlier session has persisted
SavedLists ==
  LET a == CHOOSE x \in Assets : x.symbol = "AAPL"
      b == CHOOSE x \in Assets : x.symbol = "BTC"
  IN  { <<>>,
        <<NewItem(a, 1, 1, 1)>>,
        <<NewItem(a, 1, 1, 1), NewItem(b, 1, 2, 2)>> }

\* Numbers of the holdings of a list found in the slot: JSON.parse checks
\* neither sign nor range
ValQuantities == { 0, 1, 2 }
ValPrices == { 0 - 1, 0, 3 }

ValItem(i, qty, price) ==
  [id            |-> NumToStr(i),
   symbol        |-> "AAPL",
   name          |-> "Apple Inc.",
   type          |-> "stock",
   quantity      |-> qty,
   purchasePrice |-> price,
   currentPrice  |-> 5]

\* Lists found in the slot, written there by whatever shares the origin
ValLists ==
  UNION { { [i \in 1..n |-> ValItem(i, f[i][1], f[i][2])] :
              f \in [1..n -> ValQuantities \X ValPrices] } : n \in 0..MaxItems }

\* Contents the slot can have when the page is opened
InitSlots ==
  { Absent, Slot(<<>>), Slot(<<JunkTok>>), Slot(<<NullTok>>),
    Slot(<<LBrace, RBrace>>) }
  \cup { Slot(JSONstringify(Arr(l))) : l \in SavedLists }

\* The state of the two components after construction (the useState initial
\* values), over the slot as it is
Constructed ==
  /\ phase = "init"
  /\ pending = {}
  /\ portfolio = <<>>
  /\ editingItem = {}
  /\ editQuantity = <<>>
  /\ editPrice = <<>>
  /\ isAddDialogOpen = FALSE
  /\ isEditDialogOpen = FALSE
  /\ toast = ""
  /\ logged = ""
  /\ query = <<>>
  /\ isOpen = FALSE
  /\ selectedAsset = {}
  /\ quantity = <<>>
  /\ purchasePrice = <<>>
  /\ sbIsAddDialogOpen = FALSE

Init ==
  /\ storage \in InitSlots
  /\ Constructed
  /\ clock = 1
  /\ searches = NoSearches
  /\ other = NotOpened
  /\ event = ""
  /\ reloaded = {}

-----------------------------------------------------------------------------
(* Portfolio: the totals of the render *)

\* A quotient of two numbers; den = 0 stands for NaN and the infinities
Div(a, b) == [num |-> a, den |-> b]

\* r * n
Times(r, n) == [num |-> r.num * n, den |-> r.den]

\* The number 0
Zero == [num |-> 0, den |-> 1]

\* portfolio.reduce((total, item) => total + (item.currentPrice * item.quantity), 0)
RECURSIVE getTotalPortfolioValue(_)
getTotalPortfolioValue(p) ==
  IF p = <<>> THEN 0
  ELSE LET item == p[Len(p)]
       IN  getTotalPortfolioValue(SubSeq(p, 1, Len(p) - 1))
             + (item.currentPrice * item.quantity)

\* portfolio.reduce((total, item) => total + (item.purchasePrice * item.quantity), 0)
RECURSIVE getTotalInvested(_)
getTotalInvested(p) ==
  IF p = <<>> THEN 0
  ELSE LET item == p[Len(p)]
       IN  getTotalInvested(SubSeq(p, 1, Len(p) - 1))
             + (item.purchasePrice * item.quantity)

\* The percentage without the guard: (totalGainLoss / totalInvested) * 100
TotalPercentageUnguarded(p) ==
  LET totalValue    == getTotalPortfolioValue(p)
      totalInvested == getTotalInvested(p)
      totalGainLoss == totalValue - totalInvested
  IN  Times(Div(totalGainLoss, totalInvested), 100)

\* totalPercentage = totalInvested > 0 ? (totalGainLoss / totalInvested) * 100 : 0
TotalPercentage(p) ==
  LET totalValue    == getTotalPortfolioValue(p)
      totalInvested == getTotalInvested(p)
      totalGainLoss == totalValue - totalInvested
  IN  IF totalInvested > 0
      THEN Times(Div(totalGainLoss, totalInvested), 100)
      ELSE Zero

-----------------------------------------------------------------------------
(* Portfolio: effects *)

\* The load effect without its  if (savedPortfolio)  guard: JSON.parse(null)
\* is null and does not throw
LoadEffectNoGuard(slot) ==
  IF ~slot.present THEN [pending |-> {Null}, logged |-> ""]
  ELSE LET r == JSONparse(slot.text)
       IN  IF r.ok THEN [pending |-> {r.value}, logged |-> ""]
           ELSE [pending |-> {}, logged |-> "Error loading portfolio:"]

\* useEffect(..., []): what the load effect hands to setPortfolio and logs
LoadEffect(slot) ==
  IF slot.present /\ slot.text # <<>>
  THEN LET r == JSONparse(slot.text)
       IN  IF r.ok THEN [pending |-> {r.value}, logged |-> ""]
           ELSE [pending |-> {}, logged |-> "Error loading portfolio:"]
  ELSE [pending |-> {}, logged |-> ""]

\* The save effect with the dependency list [] : it only ever saves the list
\* of the first render
SaveEffectAtMountOnly(p) == Slot(JSONstringify(Arr(<<>>)))

\* A save effect that reads the slot and keeps the holdings it finds there
\* under ids the list does not have
SaveEffectMerging(p) ==
  LET r   == IF storage.present THEN JSONparse(storage.text)
             ELSE [ok |-> FALSE, value |-> Null]
      old == IF r.ok /\ r.value.tag = "array" THEN r.value.items ELSE <<>>
  IN  Slot(JSONstringify(Arr(
        p \o SelectSeq(old, LAMBDA h : \A i \in 1..Len(p) : p[i].id # h.id))))

\* useEffect(..., [portfolio]): localStorage.setItem('portfolio', JSON.stringify(portfolio))
SaveEffect(p) == Slot(JSONstringify(Arr(p)))

\* The slot as the load effect would read it were the save effect declared
\* first
SlotReadAfterSave(slot, p) == SaveEffect(p)

\* The slot as the load effect reads it: the effects run in the order they are
\* declared, the load effect before the first save.
SlotReadAtMount(slot, p) == slot

\* The effects of the first render, which shows the empty list
MountEffects ==
  /\ event' = "mount"
  /\ UNCHANGED <<searches, other>>
  /\ phase = "init"
  /\ LET l == LoadEffect(SlotReadAtMount(storage, portfolio))
     IN  /\ pending' = l.pending
         /\ logged' = l.logged
         /\ phase' = IF l.pending = {} THEN "mounted" ELSE "loading"
  /\ storage' = SaveEffect(portfolio)
  /\ toast' = ""
  /\ UNCHANGED <<portfolio, editVars, isAddDialogOpen, searchVars, clock, reloaded>>

\* portfolio.reduce(...) and portfolio.map(...) of the render throw on a value
\* that is no array
RenderThrows(value) == value.tag # "array"

\* The render that follows setPortfolio(JSON.parse(savedPortfolio)), and the
\* save effect of the changed list
RenderLoaded ==
  /\ event' = "render"
  /\ UNCHANGED <<searches, other>>
  /\ phase = "loading"
  /\ LET value == CHOOSE v \in pending : TRUE
     IN  IF RenderThrows(value)
         THEN /\ phase' = "crashed"
              /\ UNCHANGED <<portfolio, storage>>
         ELSE /\ phase' = "mounted"
              /\ portfolio' = value.items
              /\ storage' = SaveEffect(value.items)
  /\ pending' = {}
  /\ toast' = ""
  /\ logged' = ""
  /\ UNCHANGED <<editVars, isAddDialogOpen, searchVars, clock, reloaded>>

\* The page is reloaded: both components are constructed anew over the slot
Reload ==
  /\ event' = "reload"
  /\ UNCHANGED <<searches, other>>
  /\ phase \in {"mounted", "crashed"}
  /\ phase' = "init"
  /\ pending' = {}
  /\ portfolio' = <<>>
  /\ editingItem' = {}
  /\ editQuantity' = <<>>
  /\ editPrice' = <<>>
  /\ isAddDialogOpen' = FALSE
  /\ isEditDialogOpen' = FALSE
  /\ toast' = ""
  /\ logged' = ""
  /\ query' = <<>>
  /\ isOpen' = FALSE
  /\ selectedAsset' = {}
  /\ quantity' = <<>>
  /\ purchasePrice' = <<>>
  /\ sbIsAddDialogOpen' = FALSE
  /\ reloaded' = IF phase = "mounted" THEN {portfolio} ELSE {}
  /\ UNCHANGED <<storage, clock>>

-----------------------------------------------------------------------------
(* Portfolio: the handlers *)

\* The dialogs are modal: the page behind an open dialog takes no input.
PageFree ==
  /\ phase = "mounted"
  /\ ~isAddDialogOpen /\ ~isEditDialogOpen /\ ~sbIsAddDialogOpen

\* [...prev, newItem]
Appended(prev, newItem) == Append(prev, newItem)

\* prev.filter(item => item.id !== id)
Without(prev, id) == SelectSeq(prev, LAMBDA item : item.id # id)

\* The map of saveEdit without its test on the id: every item is rewritten
WithEditAll(prev, id, qty, price) ==
  [i \in 1..Len(prev) |->
     [prev[i] EXCEPT !.quantity = qty, !.purchasePrice = price]]

\* prev.map(item => item.id === editingItem.id
\*                    ? { ...item, quantity, purchasePrice: price } : item)
WithEdit(prev, id, qty, price) ==
  [i \in 1..Len(prev) |->
     IF prev[i].id = id
     THEN [prev[i] EXCEPT !.quantity = qty, !.purchasePrice = price]
     ELSE prev[i]]

\* The check of saveEdit without its isNaN tests
EditInvalidNoNaN(qty, price) == Leq0(qty) \/ Leq0(price)

\* The check of saveEdit with < for <=
EditInvalidLax(qty, price) ==
  isNaN(qty) \/ isNaN(price) \/ Lt0(qty) \/ Lt0(price)

\* isNaN(quantity) || isNaN(price) || quantity <= 0 || price <= 0  (saveEdit)
EditInvalid(qty, price) ==
  isNaN(qty) \/ isNaN(price) \/ Leq0(qty) \/ Leq0(price)

\* isNaN(qty) || isNaN(price) || qty <= 0 || price <= 0  (handleAddToPortfolio)
AddInvalid(qty, price) ==
  isNaN(qty) \/ isNaN(price) \/ Leq0(qty) \/ Leq0(price)

\* addToPortfolio(asset, quantity, purchasePrice), with the render and the save
\* effect that follow setPortfolio
AddToPortfolio(asset, qty, price) ==
  /\ event' = "addToPortfolio"
  /\ UNCHANGED <<searches, other>>
  /\ phase = "mounted"
  /\ Len(portfolio) < MaxItems
  /\ portfolio' = Appended(portfolio, NewItem(asset, qty, price, clock))
  /\ storage' = SaveEffect(portfolio')
  /\ toast' = "Added to Portfolio"
  /\ logged' = ""
  /\ reloaded' = {}
  /\ UNCHANGED <<phase, pending, editVars, isAddDialogOpen, searchVars, clock>>

\* handleAddFromSearch(asset)
HandleAddFromSearch ==
  /\ isAddDialogOpen' = TRUE
  /\ UNCHANGED <<storage, phase, pending, portfolio, editVars, clock, reloaded>>

\* The Add Asset button (DialogTrigger) of the Portfolio header
OpenAddDialog ==
  /\ event' = "openAddDialog"
  /\ UNCHANGED <<searches, other>>
  /\ PageFree
  /\ isAddDialogOpen' = TRUE
  /\ toast' = ""
  /\ logged' = ""
  /\ UNCHANGED <<storage, phase, pending, portfolio, editVars, searchVars,
                 clock, reloaded>>

\* onOpenChange(false) of the Add Asset dialog
CloseAddDialog ==
  /\ event' = "closeAddDialog"
  /\ UNCHANGED <<searches, other>>
  /\ phase = "mounted"
  /\ isAddDialogOpen
  /\ isAddDialogOpen' = FALSE
  /\ toast' = ""
  /\ logged' = ""
  /\ UNCHANGED <<storage, phase, pending, portfolio, editVars, searchVars,
                 clock, reloaded>>

\* removeFromPortfolio(item.id) of the row's remove button
RemoveFromPortfolio(i) ==
  /\ event' = "removeFromPortfolio"
  /\ UNCHANGED <<searches, other>>
  /\ PageFree
  /\ i \in 1..Len(portfolio)
  /\ portfolio' = Without(portfolio, portfolio[i].id)
  /\ storage' = SaveEffect(portfolio')
  /\ toast' = "Removed from Portfolio"
  /\ logged' = ""
  /\ reloaded' = {}
  /\ UNCHANGED <<phase, pending, editVars, isAddDialogOpen, searchVars, clock>>

\* editPortfolioItem(item) of the row's edit button
EditPortfolioItem(i) ==
  /\ event' = "editPortfolioItem"
  /\ UNCHANGED <<searches, other>>
  /\ PageFree
  /\ i \in 1..Len(portfolio)
  /\ editingItem' = {portfolio[i]}
  /\ editQuantity' = NumToStr(portfolio[i].quantity)
  /\ editPrice' = NumToStr(portfolio[i].purchasePrice)
  /\ isEditDialogOpen' = TRUE
  /\ toast' = ""
  /\ logged' = ""
  /\ UNCHANGED <<storage, phase, pending, portfolio, isAddDialogOpen,
                 searchVars, clock, reloaded>>

\* onChange of the edit form's Quantity input
SetEditQuantity(s) ==
  /\ event' = "setEditQuantity"
  /\ UNCHANGED <<searches, other>>
  /\ phase = "mounted"
  /\ isEditDialogOpen /\ editingItem # {}
  /\ s # editQuantity
  /\ editQuantity' = s
  /\ toast' = ""
  /\ logged' = ""
  /\ UNCHANGED <<storage, phase, pending, portfolio, editingItem, editPrice,
                 isEditDialogOpen, isAddDialogOpen, searchVars, clock, reloaded>>

\* onChange of the edit form's Purchase Price input
SetEditPrice(s) ==
  /\ event' = "setEditPrice"
  /\ UNCHANGED <<searches, other>>
  /\ phase = "mounted"
  /\ isEditDialogOpen /\ editingItem # {}
  /\ s # editPrice
  /\ editPrice' = s
  /\ toast' = ""
  /\ logged' = ""
  /\ UNCHANGED <<storage, phase, pending, portfolio, editingItem, editQuantity,
                 isEditDialogOpen, isAddDialogOpen, searchVars, clock, reloaded>>

\* saveEdit() of the Save Changes button, with the render and the save effect
\* that follow setPortfolio
SaveEdit ==
  /\ event' = "saveEdit"
  /\ UNCHANGED <<searches, other>>
  /\ phase = "mounted"
  /\ isEditDialogOpen
  /\ logged' = ""
  /\ IF editingItem = {}
     THEN /\ toast' = ""
          /\ UNCHANGED <<portfolio, storage, editVars, reloaded>>
     ELSE LET item  == CHOOSE e \in editingItem : TRUE
              qty   == ParseFloat(editQuantity)
              price == ParseFloat(editPrice)
          IN  IF EditInvalid(qty, price)
              THEN /\ toast' = "Invalid Input"
                   /\ UNCHANGED <<portfolio, storage, editVars, reloaded>>
              ELSE /\ portfolio' = WithEdit(portfolio, item.id, qty.val, price.val)
                   /\ storage' = SaveEffect(portfolio')
                   /\ isEditDialogOpen' = FALSE
                   /\ editingItem' = {}
                   /\ toast' = "Portfolio Updated"
                   /\ reloaded' = {}
                   /\ UNCHANGED <<editQuantity, editPrice>>
  /\ UNCHANGED <<phase, pending, isAddDialogOpen, searchVars, clock>>

\* The edit form's Cancel button: setIsEditDialogOpen(false)
CancelEdit ==
  /\ event' = "cancelEdit"
  /\ UNCHANGED <<searches, other>>
  /\ phase = "mounted"
  /\ isEditDialogOpen
  /\ isEditDialogOpen' = FALSE
  /\ toast' = ""
  /\ logged' = ""
  /\ UNCHANGED <<storage, phase, pending, portfolio, editingItem, editQuantity,
                 editPrice, isAddDialogOpen, searchVars, clock, reloaded>>

\* Time passes between two reads of Date.now()
Tick ==
  /\ event' = "tick"
  /\ UNCHANGED <<searches, other>>
  /\ clock < MaxClock
  /\ clock' = clock + 1
  /\ toast' = ""
  /\ logged' = ""
  /\ UNCHANGED <<storage, phase, pending, portfolio, editVars, isAddDialogOpen,
                 searchVars, reloaded>>

-----------------------------------------------------------------------------
(* SearchBar: the handlers *)

\* onChange of the search input: setQuery, setIsOpen
SetQueryState(q) ==
  /\ PageFree
  /\ q # query
  /\ query' = q
  /\ isOpen' = (Length(q) >= 2)
  /\ toast' = ""
  /\ logged' = ""
  /\ UNCHANGED <<storage, phase, pending, portfolio, editVars, isAddDialogOpen,
                 selectedAsset, quantity, purchasePrice, sbIsAddDialogOpen,
                 clock, reloaded>>

\* onChange of the search input, the lookups left aside
SetQuery(q) ==
  /\ event' = "setQuery"
  /\ UNCHANGED <<searches, other>>
  /\ SetQueryState(q)

\* onFocus of the search input
FocusQuery ==
  /\ event' = "onFocus"
  /\ UNCHANGED <<searches, other>>
  /\ PageFree
  /\ isOpen' = (Length(query) >= 2)
  /\ toast' = ""
  /\ logged' = ""
  /\ UNCHANGED <<storage, phase, pending, portfolio, editVars, isAddDialogOpen,
                 query, selectedAsset, quantity, purchasePrice,
                 sbIsAddDialogOpen, clock, reloaded>>

\* The X button, rendered while the query is not empty
ClearQuery ==
  /\ event' = "clearQuery"
  /\ UNCHANGED <<searches, other>>
  /\ PageFree
  /\ query # <<>>
  /\ query' = <<>>
  /\ isOpen' = FALSE
  /\ toast' = ""
  /\ logged' = ""
  /\ UNCHANGED <<storage, phase, pending, portfolio, editVars, isAddDialogOpen,
                 selectedAsset, quantity, purchasePrice, sbIsAddDialogOpen,
                 clock, reloaded>>

\* asset.price?.toString() || ''
PriceText(asset) ==
  IF asset.price.defined THEN NumToStr(asset.price.val) ELSE <<>>

\* handleSelectAsset(result) of a row of the results dropdown
HandleSelectAsset(asset) ==
  /\ event' = "handleSelectAsset"
  /\ UNCHANGED <<searches, other>>
  /\ PageFree
  /\ isOpen /\ Length(query) >= 2
  /\ selectedAsset' = {asset}
  /\ purchasePrice' = PriceText(asset)
  /\ sbIsAddDialogOpen' = TRUE
  /\ isOpen' = FALSE
  /\ toast' = ""
  /\ logged' = ""
  /\ UNCHANGED <<storage, phase, pending, portfolio, editVars, isAddDialogOpen,
                 query, quantity, clock, reloaded>>

\* onChange of the add form's Quantity input
SetQuantity(s) ==
  /\ event' = "setQuantity"
  /\ UNCHANGED <<searches, other>>
  /\ phase = "mounted"
  /\ sbIsAddDialogOpen /\ selectedAsset # {}
  /\ s # quantity
  /\ quantity' = s
  /\ toast' = ""
  /\ logged' = ""
  /\ UNCHANGED <<storage, phase, pending, portfolio, editVars, isAddDialogOpen,
                 query, isOpen, selectedAsset, purchasePrice,
                 sbIsAddDialogOpen, clock, reloaded>>

\* onChange of the add form's Purchase Price input
SetPurchasePrice(s) ==
  /\ event' = "setPurchasePrice"
  /\ UNCHANGED <<searches, other>>
  /\ phase = "mounted"
  /\ sbIsAddDialogOpen /\ selectedAsset # {}
  /\ s # purchasePrice
  /\ purchasePrice' = s
  /\ toast' = ""
  /\ logged' = ""
  /\ UNCHANGED <<storage, phase, pending, portfolio, editVars, isAddDialogOpen,
                 query, isOpen, selectedAsset, quantity, sbIsAddDialogOpen,
                 clock, reloaded>>

\* handleAddToPortfolio() of the Add to Portfolio button; onAddToPortfolio is
\* the prop Portfolio passes, handleAddFromSearch
HandleAddToPortfolio ==
  /\ event' = "handleAddToPortfolio"
  /\ UNCHANGED <<searches, other>>
  /\ phase = "mounted"
  /\ sbIsAddDialogOpen
  /\ toast' = ""
  /\ logged' = ""
  /\ IF selectedAsset = {}
     THEN UNCHANGED <<storage, phase, pending, portfolio, editVars,
                      isAddDialogOpen, searchVars, clock, reloaded>>
     ELSE LET qty   == ParseFloat(quantity)
              price == ParseFloat(purchasePrice)
          IN  IF AddInvalid(qty, price)
              THEN UNCHANGED <<storage, phase, pending, portfolio, editVars,
                               isAddDialogOpen, searchVars, clock, reloaded>>
              ELSE /\ HandleAddFromSearch
                   /\ sbIsAddDialogOpen' = FALSE
                   /\ selectedAsset' = {}
                   /\ quantity' = <<>>
                   /\ purchasePrice' = <<>>
                   /\ query' = <<>>
                   /\ UNCHANGED isOpen

\* The add form's Cancel button: setIsAddDialogOpen(false)
CancelAdd ==
  /\ event' = "cancelAdd"
  /\ UNCHANGED <<searches, other>>
  /\ phase = "mounted"
  /\ sbIsAddDialogOpen
  /\ sbIsAddDialogOpen' = FALSE
  /\ toast' = ""
  /\ logged' = ""
  /\ UNCHANGED <<storage, phase, pending, portfolio, editVars, isAddDialogOpen,
                 query, isOpen, selectedAsset, quantity, purchasePrice,
                 clock, reloaded>>

-----------------------------------------------------------------------------
(* SearchBar: useQuery and the lookups *)

\* Strings typed in the search box when the lookups are followed
SearchQueries == SearchedQueries \cup { <<"b">> }

\* The cache entry useQuery observes for the query in the box
Observed == searches[QueryKey(query)]

\* const { data: searchResults = [] } = useQuery(...): undefined for a query
\* shorter than 2 (enabled: false, nothing cached) and before the first run
\* has resolved
SearchResults ==
  IF Length(query) >= 2 /\ Observed.data # {}
  THEN CHOOSE d \in Observed.data : TRUE
  ELSE <<>>

\* isLoading of useQuery: a first fetch is going on and there is no data
IsLoading ==
  Length(query) >= 2 /\ Observed.data = {} /\ InFlight(Observed)

\* onChange of the search input and the render that follows: useQuery starts
\* searchAssets(query) for an enabled key that has neither data (fresh for
\* staleTime) nor a fetch going on; the fetch of the key that was left goes on
QueryChanged(q) ==
  /\ event' = "setQuery"
  /\ UNCHANGED other
  /\ SetQueryState(q)
  /\ LET k == QueryKey(q)
     IN  searches' =
           IF Length(q) >= 2 /\ searches[k].data = {} /\ ~InFlight(searches[k])
           THEN [searches EXCEPT ![k] = StartRun(@, q)]
           ELSE searches

\* The fetch of searchStocks settles, for the run under key k
StockCompletes(k, resp) ==
  /\ event' = "stockCompletes"
  /\ UNCHANGED other
  /\ phase = "mounted"
  /\ searches[k].stock = "inflight"
  /\ resp \in YahooResponses(searches[k].query)
  /\ searches' = [searches EXCEPT ![k] = StockDone(@, resp)]
  /\ logged' = IF resp.kind # "ok" THEN "Error searching stocks:" ELSE ""
  /\ toast' = ""
  /\ UNCHANGED <<storage, phase, pending, portfolio, editVars, isAddDialogOpen,
                 searchVars, clock, reloaded>>

\* The fetch of the crypto source settles, for the run under key k
CryptoCompletes(k, resp) ==
  /\ event' = "cryptoCompletes"
  /\ UNCHANGED other
  /\ phase = "mounted"
  /\ searches[k].crypto = "inflight"
  /\ resp \in GeckoResponses(searches[k].query)
  /\ searches' = [searches EXCEPT ![k] = CryptoDone(@, resp)]
  /\ logged' = IF \/ resp.kind \in {"networkError", "parseError"}
                  \/ /\ resp.kind = "ok"
                     /\ resp.body # {}
                     /\ CryptoResults(resp) = <<>>
               THEN "Error searching crypto:" ELSE ""
  /\ toast' = ""
  /\ UNCHANGED <<storage, phase, pending, portfolio, editVars, isAddDialogOpen,
                 searchVars, clock, reloaded>>

\* The dropdown under the search box: closed, Searching..., the rows, or
\* No results found
Dropdown ==
  IF ~isOpen THEN [view |-> "closed", rows |-> <<>>]
  ELSE IF IsLoading THEN [view |-> "Searching...", rows |-> <<>>]
  ELSE IF Len(SearchResults) > 0 THEN [view |-> "results", rows |-> SearchResults]
  ELSE IF Length(query) >= 2 THEN [view |-> "No results found", rows |-> <<>>]
  ELSE [view |-> "empty", rows |-> <<>>]

\* A row of the dropdown is clicked: searchResults.map(result => <button
\* onClick={() => handleSelectAsset(result)}>), rendered when not loading
SelectResult(i) ==
  /\ ~IsLoading
  /\ i \in 1..Len(SearchResults)
  /\ HandleSelectAsset(SearchResults[i])

-----------------------------------------------------------------------------
(* Portfolio in a second tab, on the same slot *)

\* The first render of the second tab and its effects: the load effect reads
\* the slot, the save effect writes the empty list
OtherMountEffects ==
  /\ event' = "otherMount"
  /\ other.phase = "closed"
  /\ LET l == LoadEffect(SlotReadAtMount(storage, <<>>))
     IN  /\ other' = [phase     |-> IF l.pending = {} THEN "mounted" ELSE "loading",
                      pending   |-> l.pending,
                      portfolio |-> <<>>]
         /\ logged' = l.logged
  /\ storage' = SaveEffect(<<>>)
  /\ toast' = ""
  /\ UNCHANGED <<phase, pending, portfolio, editVars, isAddDialogOpen,
                 searchVars, clock, searches, reloaded>>

\* The render of the loaded list in the second tab, and its save effect
OtherRenderLoaded ==
  /\ event' = "otherRender"
  /\ other.phase = "loading"
  /\ LET value == CHOOSE v \in other.pending : TRUE
     IN  IF RenderThrows(value)
         THEN /\ other' = [other EXCEPT !.phase = "crashed", !.pending = {}]
              /\ UNCHANGED storage
         ELSE /\ other' = [phase |-> "mounted", pending |-> {},
                           portfolio |-> value.items]
              /\ storage' = SaveEffect(value.items)
  /\ toast' = ""
  /\ logged' = ""
  /\ UNCHANGED <<phase, pending, portfolio, editVars, isAddDialogOpen,
                 searchVars, clock, searches, reloaded>>

\* addToPortfolio in the second tab
OtherAddToPortfolio(asset, qty, price) ==
  /\ event' = "otherAddToPortfolio"
  /\ other.phase = "mounted"
  /\ Len(other.portfolio) < MaxItems
  /\ other' = [other EXCEPT
                 !.portfolio = Appended(@, NewItem(asset, qty, price, clock))]
  /\ storage' = SaveEffect(other'.portfolio)
  /\ toast' = ""
  /\ logged' = ""
  /\ UNCHANGED <<phase, pending, portfolio, editVars, isAddDialogOpen,
                 searchVars, clock, searches, reloaded>>

\* removeFromPortfolio in the second tab
OtherRemoveFromPortfolio(i) ==
  /\ event' = "otherRemoveFromPortfolio"
  /\ other.phase = "mounted"
  /\ i \in 1..Len(other.portfolio)
  /\ other' = [other EXCEPT !.portfolio = Without(@, other.portfolio[i].id)]
  /\ storage' = SaveEffect(other'.portfolio)
  /\ toast' = ""
  /\ logged' = ""
  /\ UNCHANGED <<phase, pending, portfolio, editVars, isAddDialogOpen,
                 searchVars, clock, searches, reloaded>>

-----------------------------------------------------------------------------
(* Specifications *)

\* The page as it is wired: Portfolio with its SearchBar
Next ==
  \/ MountEffects
  \/ RenderLoaded
  \/ Reload
  \/ OpenAddDialog
  \/ CloseAddDialog
  \/ \E i \in 1..MaxItems : RemoveFromPortfolio(i)
  \/ \E i \in 1..MaxItems : EditPortfolioItem(i)
  \/ \E s \in QuantityInputs : SetEditQuantity(s)
  \/ \E s \in PriceInputs : SetEditPrice(s)
  \/ SaveEdit
  \/ CancelEdit
  \/ \E q \in Queries : SetQuery(q)
  \/ FocusQuery
  \/ ClearQuery
  \/ \E a \in Assets : HandleSelectAsset(a)
  \/ \E s \in QuantityInputs : SetQuantity(s)
  \/ \E s \in PriceInputs : SetPurchasePrice(s)
  \/ HandleAddToPortfolio
  \/ CancelAdd

Spec == Init /\ [][Next]_vars

\* Numbers the search form hands to onAddToPortfolio
AddNumbers == {1}

InitStore == Init /\ storage = Absent

\* The store by its operations: add, update and remove on a list that starts
\* empty, and the reload of the page; the add operation is called as
\* SearchBarProps.onAddToPortfolio declares it
NextStore ==
  \/ MountEffects
  \/ RenderLoaded
  \/ Reload
  \/ Tick
  \/ \E a \in Assets, qty \in AddNumbers, price \in AddNumbers :
        AddToPortfolio(a, qty, price)
  \/ \E i \in 1..MaxItems : RemoveFromPortfolio(i)
  \/ \E i \in 1..MaxItems : EditPortfolioItem(i)
  \/ \E s \in QuantityInputs : SetEditQuantity(s)
  \/ SaveEdit
  \/ CancelEdit

SpecStore == InitStore /\ [][NextStore]_vars

InitVal ==
  /\ storage \in { Slot(JSONstringify(Arr(l))) : l \in ValLists }
  /\ Constructed
  /\ clock = 1
  /\ searches = NoSearches
  /\ other = NotOpened
  /\ event = ""
  /\ reloaded = {}

\* The list as loaded from the slot, with holdings added and removed; the
\* totals are computed by every render
NextVal ==
  \/ MountEffects
  \/ RenderLoaded
  \/ \E a \in Assets, qty \in AddNumbers, price \in AddNumbers :
        AddToPortfolio(a, qty, price)
  \/ \E i \in 1..MaxItems : RemoveFromPortfolio(i)

SpecVal == InitVal /\ [][NextVal]_vars

\* The assets each of the two tabs adds
TabAssets == { a \in Assets : a.symbol = "AAPL" }
OtherTabAssets == { a \in Assets : a.symbol = "BTC" }

\* Two tabs of the page on one slot, each adding to and removing from its own
\* list
NextTabs ==
  \/ MountEffects
  \/ RenderLoaded
  \/ Tick
  \/ \E a \in TabAssets, qty \in AddNumbers, price \in AddNumbers :
        AddToPortfolio(a, qty, price)
  \/ \E i \in 1..MaxItems : RemoveFromPortfolio(i)
  \/ OtherMountEffects
  \/ OtherRenderLoaded
  \/ \E a \in OtherTabAssets, qty \in AddNumbers, price \in AddNumbers :
        OtherAddToPortfolio(a, qty, price)
  \/ \E i \in 1..MaxItems : OtherRemoveFromPortfolio(i)

SpecTabs == InitStore /\ [][NextTabs]_vars

\* The search box with its lookups, over an empty portfolio
NextSearch ==
  \/ MountEffects
  \/ \E q \in SearchQueries : QueryChanged(q)
  \/ ClearQuery
  \/ \E k \in SearchedQueries :
        \E resp \in UNION { YahooResponses(q) : q \in SearchedQueries } :
          StockCompletes(k, resp)
  \/ \E k \in SearchedQueries :
        \E resp \in UNION { GeckoResponses(q) : q \in SearchedQueries } :
          CryptoCompletes(k, resp)
  \/ \E i \in 1..ResultCap : SelectResult(i)
  \/ CancelAdd

SpecSearch == InitStore /\ [][NextSearch]_vars

-----------------------------------------------------------------------------
(* Properties *)

\* A string that is no number, or a number that is not strictly positive
NotPositiveNumber(s) == LET x == ParseFloat(s) IN x.nan \/ x.val <= 0

\* The add form is confirmed
ConfirmsAdd == HandleAddToPortfolio /\ selectedAsset # {}

\* The edit form is saved
SavesEdit == SaveEdit /\ editingItem # {}

\* The search-and-select flow is idle
Idle == query = <<>> /\ selectedAsset = {} /\ ~sbIsAddDialogOpen

\* C1: confirming the add form with a valid quantity and a valid purchase
\* price appends a holding with the selected symbol, that quantity and that
\* price to the end of the portfolio list and returns the flow to idle.
C1_ConfirmAppendsHolding ==
  [][ (ConfirmsAdd /\ ~NotPositiveNumber(quantity)
                   /\ ~NotPositiveNumber(purchasePrice))
      => /\ Len(portfolio') = Len(portfolio) + 1
         /\ SubSeq(portfolio', 1, Len(portfolio)) = portfolio
         /\ \A a \in selectedAsset :
              LET h == portfolio'[Len(portfolio')]
              IN  /\ h.symbol = a.symbol
                  /\ h.quantity = ParseFloat(quantity).val
                  /\ h.purchasePrice = ParseFloat(purchasePrice).val
         /\ Idle' ]_vars

\* C2: once a change of the list has been applied and saved, the slot holds
\* the serialization of the whole list: parsing it gives the holdings of the
\* in-memory list, with the same field values, in the same order.
C2_SlotMirrorsList ==
  phase = "mounted" =>
    /\ storage.present
    /\ LET r == JSONparse(storage.text)
       IN  r.ok /\ r.value.tag = "array" /\ r.value.items = portfolio

\* C2 witness: an add, an edit and a removal have been applied and saved.
C2_Witness ==
  /\ phase = "mounted"
  /\ toast = "Removed from Portfolio"
  /\ \E i \in 1..Len(portfolio) : portfolio[i].quantity = 2

\* C3: no two holdings of the list have the same id.
C3_UniqueIds ==
  \A i, j \in 1..Len(portfolio) :
    i # j => portfolio[i].id # portfolio[j].id

\* C4: adding a holding to the list and then removing by the id of the added
\* holding gives back the list as it was.
C4_AddThenRemoveRestores ==
  phase = "mounted" =>
    \A a \in Assets, qty \in AddNumbers, price \in AddNumbers :
      LET h == NewItem(a, qty, price, clock)
      IN  Without(Appended(portfolio, h), h.id) = portfolio

\* C5: saving an edit whose quantity or purchase price is no number or is not
\* strictly positive leaves the list and the slot as they are and the edit
\* dialog open on the same item.
C5_InvalidEditRejected ==
  [][ (SavesEdit /\ (NotPositiveNumber(editQuantity) \/ NotPositiveNumber(editPrice)))
      => /\ portfolio' = portfolio
         /\ storage' = storage
         /\ isEditDialogOpen'
         /\ editingItem' = editingItem ]_vars

\* C5 witness: an edit with quantity 0 and price -1 has just been rejected.
C5_Witness ==
  /\ toast = "Invalid Input"
  /\ isEditDialogOpen
  /\ editQuantity = <<"0">>
  /\ editPrice = <<"-", "1">>

\* C6: every validation failure, of the add form as of the edit form, raises a
\* message and changes nothing else.
C6_InvalidFormRaisesMessage ==
  [][ ( \/ ConfirmsAdd /\ (NotPositiveNumber(quantity) \/ NotPositiveNumber(purchasePrice))
        \/ SavesEdit /\ (NotPositiveNumber(editQuantity) \/ NotPositiveNumber(editPrice)) )
      => /\ toast' # ""
         /\ UNCHANGED <<storage, phase, pending, portfolio, editVars,
                        isAddDialogOpen, searchVars>> ]_vars

\* C7: when the slot is absent or its content does not parse, the mount leaves
\* the empty list in memory, raises no toast, and logs the parse error.
C7_LoadFailureFallsBackToEmpty ==
  [][ (phase = "init" /\ phase' # "init"
       /\ (~storage.present \/ ~JSONparse(storage.text).ok))
      => /\ phase' = "mounted"
         /\ pending' = {}
         /\ portfolio' = <<>>
         /\ toast' = ""
         /\ (storage.present /\ storage.text # <<>>) => logged' # "" ]_vars

\* C7 witness: the page is mounted over a slot that did not parse.
C7_Witness ==
  /\ phase = "mounted"
  /\ logged = "Error loading portfolio:"
  /\ portfolio = <<>>
  /\ toast = ""

\* C8: the component never crashes, whatever the slot holds.
C8_NeverCrashes == phase # "crashed"

\* C9: a reload gives back the list held before it, in memory and in the slot.
C9_ReloadRoundTrip ==
  (phase = "mounted" /\ reloaded # {}) =>
    \A l \in reloaded :
      /\ portfolio = l
      /\ storage.present
      /\ JSONparse(storage.text) = [ok |-> TRUE, value |-> Arr(l)]

\* C9 witness: the page has been reloaded over a list of two holdings, one of
\* them edited.
C9_Witness ==
  /\ phase = "mounted"
  /\ reloaded # {}
  /\ Len(portfolio) = 2
  /\ \E i \in 1..Len(portfolio) : portfolio[i].quantity = 2

\* C10: every holding of the list has a quantity > 0 and a purchase price > 0.
C10_HoldingsPositive ==
  \A i \in 1..Len(portfolio) :
    portfolio[i].quantity > 0 /\ portfolio[i].purchasePrice > 0

\* C10 witness: after rejected and accepted saves and confirmations, a holding
\* has been given a new quantity and a new purchase price.
C10_Witness ==
  /\ toast = "Portfolio Updated"
  /\ \E i \in 1..Len(portfolio) :
       portfolio[i].quantity = 2 /\ portfolio[i].purchasePrice = 2

\* C11: cancelling the add form returns the search-and-select flow to idle,
\* with no leftover quantity or price text, and leaves the list and the slot
\* as they are.
C11_CancelReturnsToIdle ==
  [][ CancelAdd
      => /\ Idle'
         /\ quantity' = <<>>
         /\ purchasePrice' = <<>>
         /\ UNCHANGED <<portfolio, storage>> ]_vars

\* The lookup of a class failed: network error, non-OK response, body that
\* does not parse
Failed(resp) == resp \in FailedResponses

\* A run of searchAssets has returned
Returned(run) == run.stock = "done" /\ run.crypto = "done"

\* C12: for every query of length >= 2, searchAssets completes without error,
\* and when the lookup of one class fails the run returns the results of the
\* other class, the failed class giving none.
C12_PartialFailureTolerated ==
  \A k \in SearchedQueries :
    LET run == searches[k]
    IN  /\ ~run.error
        /\ Returned(run) =>
             /\ run.data # {}
             /\ Failed(run.stockResp) =>
                  run.data = {CryptoResults(run.cryptoResp)}
             /\ Failed(run.cryptoResp) =>
                  run.data = {Slice(StockResults(run.stockResp.body), StockCap)}

\* A run whose stock lookup failed has returned the coins of its query
C12_Witness ==
  \E k \in SearchedQueries :
    /\ Returned(searches[k])
    /\ Failed(searches[k].stockResp)
    /\ searches[k].cryptoResp = Response("ok", {GeckoCoins(k)})
    /\ \E d \in searches[k].data : Len(d) = CryptoCap /\ d[1].symbol \in {"BTC", "AAVE"}

\* The symbols the two sources hold for a query, as searchAssets returns them
SymbolsFor(q) ==
  { YahooQuotes(q)[i].symbol : i \in 1..Len(YahooQuotes(q)) }
  \cup { ToUpperCase(GeckoCoins(q)[i].symbol) : i \in 1..Len(GeckoCoins(q)) }

\* The run for q1 has just returned rows, after the lookup for the query in
\* the box, q2, was started and before it returned
ResolvedStale(q1, q2) ==
  /\ q1 # q2
  /\ query = q2
  /\ isOpen
  /\ event = "cryptoCompletes"
  /\ searches[q1].query = q1
  /\ Returned(searches[q1])
  /\ \E d \in searches[q1].data : Len(d) > 0
  /\ searches[q2].query = q2
  /\ InFlight(searches[q2])

\* C15 as stated: a response for q1 that resolves after the lookup for q2 has
\* started is rendered, the list shown for q2 being q1's results.
C15_StaleResponseRendered ==
  \A q1, q2 \in SearchedQueries :
    ResolvedStale(q1, q2) => {Dropdown.rows} = searches[q1].data

\* C15, amended: a response is stored under the key of its own query, so the
\* rows shown for the query in the box are results of that query only; a
\* response for q1 resolving after the lookup for q2 started leaves the
\* dropdown at Searching...
C15_RowsBelongToQuery ==
  /\ \A i \in 1..Len(Dropdown.rows) : Dropdown.rows[i].symbol \in SymbolsFor(query)
  /\ \A q1, q2 \in SearchedQueries :
       ResolvedStale(q1, q2) => Dropdown.view = "Searching..."

\* The response for the abandoned query has resolved while the lookup of the
\* current one is going on
C15_Witness ==
  \E q1, q2 \in SearchedQueries :
    /\ ResolvedStale(q1, q2)
    /\ Dropdown.view = "Searching..."

\* C17 as stated: the two lookups of a query race, the crypto request being
\* issued without waiting for the stock lookup.
C17_LookupsRace ==
  \A k \in SearchedQueries :
    searches[k].stock = "inflight" => searches[k].crypto # "idle"

\* C17, amended: the two lookups of a query run one after the other; the
\* crypto request is issued, and completes, only after the stock lookup has
\* completed.
C17_CryptoAfterStock ==
  \A k \in SearchedQueries :
    searches[k].crypto # "idle" => searches[k].stock = "done"

\* The crypto request of a run is in flight, the stock lookup having completed
C17_Witness ==
  \E k \in SearchedQueries :
    /\ searches[k].crypto = "inflight"
    /\ searches[k].stock = "done"
    /\ searches[k].stockResp # NoResponse

LineValue(h) == h.currentPrice * h.quantity
LineCost(h) == h.purchasePrice * h.quantity

\* The sum of the line values of a list
RECURSIVE SumValue(_)
SumValue(p) == IF p = <<>> THEN 0 ELSE LineValue(Head(p)) + SumValue(Tail(p))

\* The sum of the line costs of a list
RECURSIVE SumCost(_)
SumCost(p) == IF p = <<>> THEN 0 ELSE LineCost(Head(p)) + SumCost(Tail(p))

\* C13: the aggregate percent is 0 when the list is empty and whenever the
\* total invested is not positive; otherwise it is 100 * (total value - total
\* invested) / total invested, the totals being the sums of currentPrice *
\* quantity and of purchasePrice * quantity over the holdings.
C13_AggregatePercent ==
  LET value    == SumValue(portfolio)
      invested == SumCost(portfolio)
      percent  == TotalPercentage(portfolio)
  IN  /\ percent.den # 0
      /\ portfolio = <<>> => percent.num = 0
      /\ invested <= 0 => percent.num = 0
      /\ invested > 0 => percent.num * invested = 100 * (value - invested) * percent.den

\* A list that holds value, loaded from the slot, whose total invested is not
\* positive
C13_Witness ==
  /\ phase = "mounted"
  /\ event = "render"
  /\ Len(portfolio) = MaxItems
  /\ SumValue(portfolio) > 0
  /\ SumCost(portfolio) < 0
  /\ TotalPercentage(portfolio) = Zero

\* What of a holding no edit touches
Fixed(h) ==
  [id |-> h.id, symbol |-> h.symbol, name |-> h.name, type |-> h.type,
   currentPrice |-> h.currentPrice]

\* The edit form is saved with a quantity and a price that are accepted
SavesValidEdit ==
  /\ SavesEdit
  /\ ~NotPositiveNumber(editQuantity)
  /\ ~NotPositiveNumber(editPrice)

\* C14: a successful edit gives the holding with the edited id the quantity and
\* the purchase price of the form and changes nothing else: the list keeps its
\* length and order, every holding keeps its id, symbol, name, type and current
\* price, and every holding with another id is unchanged.  A remove leaves the
\* remaining holdings as they were, and after a reload the list is the one held
\* before: no edit, remove or reload changes the current price of a holding.
C14_EditFrame ==
  /\ [][ SavesValidEdit =>
           \E item \in editingItem :
             /\ Len(portfolio') = Len(portfolio)
             /\ \A i \in 1..Len(portfolio) :
                  /\ Fixed(portfolio'[i]) = Fixed(portfolio[i])
                  /\ portfolio[i].id # item.id => portfolio'[i] = portfolio[i]
                  /\ portfolio[i].id = item.id =>
                       /\ portfolio'[i].quantity = ParseFloat(editQuantity).val
                       /\ portfolio'[i].purchasePrice = ParseFloat(editPrice).val ]_vars
  /\ [][ event' = "removeFromPortfolio" =>
           \A j \in 1..Len(portfolio') :
             \E i \in 1..Len(portfolio) : portfolio'[j] = portfolio[i] ]_vars
  /\ [] ( (phase = "mounted" /\ reloaded # {}) =>
            \A l \in reloaded :
              /\ Len(portfolio) = Len(l)
              /\ \A i \in 1..Len(l) : Fixed(portfolio[i]) = Fixed(l[i]) )

\* The first of two holdings has just been given a new quantity and a new
\* purchase price, the second being as it was saved
C14_Witness ==
  /\ event = "saveEdit"
  /\ toast = "Portfolio Updated"
  /\ Len(portfolio) = 2
  /\ portfolio[1].id # portfolio[2].id
  /\ portfolio[1].quantity = 2 /\ portfolio[1].purchasePrice = 2
  /\ portfolio[2].quantity = 1 /\ portfolio[2].purchasePrice = 2
  /\ portfolio[1].currentPrice = 5

\* The slot holds the text of a list
SlotHolds(l) ==
  /\ storage.present
  /\ JSONparse(storage.text) = [ok |-> TRUE, value |-> Arr(l)]

\* h is a holding of the list l
Holds(l, h) == \E i \in 1..Len(l) : l[i] = h

\* C16: with two tabs on one slot the last writer wins: after a tab has added
\* or removed a holding the slot holds that tab's list, whatever the other tab
\* had written there.
C16_LastWriterWins ==
  /\ event \in {"addToPortfolio", "removeFromPortfolio"} => SlotHolds(portfolio)
  /\ event \in {"otherAddToPortfolio", "otherRemoveFromPortfolio"} =>
       SlotHolds(other.portfolio)

\* The first tab has just added a holding, and a holding the second tab holds
\* and the first never loaded is not in the slot
C16_Witness ==
  /\ event = "addToPortfolio"
  /\ other.phase = "mounted"
  /\ SlotHolds(portfolio)
  /\ \A i \in 1..Len(portfolio) : portfolio[i].symbol = "AAPL"
  /\ \E i \in 1..Len(other.portfolio) :
       /\ other.portfolio[i].symbol = "BTC"
       /\ ~Holds(portfolio, other.portfolio[i])

====
